---- MODULE Spec2Model ----
(***************************************************************************)
(* A model of the form builder in src/web/src/app/page.tsx: the store      *)
(* (fields, draft entry, saved entries) with its React effects and the     *)
(* two localStorage slots, the JSON import, the CSV export, the            *)
(* bookmarklet text parser and the generated autofill script.              *)
(*                                                                         *)
(* Text that the program only passes through JSON.parse / JSON.stringify   *)
(* is represented by the document it denotes (a tagged record); text that  *)
(* the program inspects character by character (bookmarklet lines, CSV     *)
(* cells) is a sequence of one-character strings.                          *)
(***************************************************************************)
EXTENDS Integers, Sequences, FiniteSets, TLC

VARIABLES
    fields,          \* useState<Field[]>            (line 103)
    entry,           \* useState<Entry>, the draft   (line 104)
    entries,         \* useState<Entry[]>            (line 109)
    slotFields,      \* localStorage["form_fields_v1"]
    slotEntries,     \* localStorage["form_entries_v1"]
    storageDisabled, \* localStorage access throws (getItem and setItem)
    fieldsWriteOk,   \* outcome of the latest setItem on the fields slot
    entriesWriteOk,  \* outcome of the latest setItem on the entries slot
    writeFailures,   \* number of setItem calls that threw on a working storage (bounded)
    fxQueue,         \* passive effects still to run, each with its closure
    inflight,        \* FileReader reads started and not yet completed
    importLog,       \* documents whose onload has run, in completion order
    preImport,       \* <<fields, entries>> before the reads were started
    steps,           \* number of user operations so far (bounded)
    lastOp,          \* name of the latest operation
    bmText,          \* useState<string> bmText      (line 110)
    bmPairs,         \* parseBookmarkletPairs(bmText)
    page,            \* the third-party page: selector -> element
    scriptRun,       \* result of running the generated script on page
    csvOut           \* what exportEntriesCSV handed to download()

storeVars == <<fields, entry, entries, slotFields, slotEntries, storageDisabled,
               fieldsWriteOk, entriesWriteOk, writeFailures, fxQueue, inflight, importLog,
               preImport, steps, lastOp>>
bmVars == <<bmText, bmPairs, page, scriptRun>>
toolVars == <<bmVars, csvOut>>
vars == <<storeVars, toolVars>>

----------------------------------------------------------------------------
(* Bounds of the model *)

MaxSteps == 2
MaxSaved == 2
MaxFields == 6
MaxInFlight == 2
MaxWriteFailures == 1

----------------------------------------------------------------------------
(* Data model (lines 5-26) *)

FieldType == {"text", "email", "tel", "date", "number", "textarea"}

Field(id, label, type) == [id |-> id, label |-> label, type |-> type]

\* A string the program reads or builds is a sequence of characters; ids and
\* type names, which it only compares, stay strings.
NoText == <<>>

\* lines 15-21 (the labels are Devanagari words in the source, one letter here)
DEFAULT_FIELDS ==
    << Field("name", <<"N">>, "text"),
       Field("email", <<"E">>, "email"),
       Field("phone", <<"P">>, "tel"),
       Field("address", <<"A">>, "textarea"),
       Field("date", <<"D">>, "date") >>

\* the ids uid("field") is taken to return in a run
UidPool == {"field_u1", "field_u2"}
NewFieldLabel == <<"F">>
\* what the user types or picks in a run
Values == {NoText, <<"A">>}
EditLabels == {<<"X">>}
EditTypes == {"number"}

Ids(fs) == {fs[i].id : i \in DOMAIN fs}

\* Object.fromEntries(fields.map((f) => [f.id, ""]))   (lines 105-107, 167)
EmptyEntry(fs) == [k \in Ids(fs) |-> NoText]

RECURSIVE SelectSeq2(_, _, _)
\* Array.prototype.filter with the index at hand: keep s[i] when Keep(i)
SelectSeq2(s, keep, i) ==
    IF i > Len(s) THEN <<>>
    ELSE (IF i \in keep THEN <<s[i]>> ELSE <<>>) \o SelectSeq2(s, keep, i + 1)

----------------------------------------------------------------------------
(* JSON text, by the document it denotes *)

Doc(t, fIsArr, f, eIsArr, e, items) ==
    [t |-> t, fIsArr |-> fIsArr, f |-> f, eIsArr |-> eIsArr, e |-> e, items |-> items]

\* JSON.stringify of an array of records of strings
JSONstringify(arr) == Doc("arr", FALSE, <<>>, FALSE, <<>>, arr)

\* JSON.parse throws a SyntaxError on text that is not JSON
ParseThrows(doc) == doc.t = "malformed"

\* a localStorage slot: getItem returns null when the key is absent
Absent == [present |-> FALSE, doc |-> Doc("empty", FALSE, <<>>, FALSE, <<>>, <<>>)]
Stored(doc) == [present |-> TRUE, doc |-> doc]

\* `if (f)`: null and the empty string are falsy
Truthy(slot) == slot.present /\ slot.doc.t # "empty"

----------------------------------------------------------------------------
(* Contents the two slots and an uploaded file may hold *)

Malformed == Doc("malformed", FALSE, <<>>, FALSE, <<>>, <<>>)
EmptyText == Doc("empty", FALSE, <<>>, FALSE, <<>>, <<>>)
JsonNull == Doc("null", FALSE, <<>>, FALSE, <<>>, <<>>)
JsonScalar == Doc("scalar", FALSE, <<>>, FALSE, <<>>, <<>>)
\* an object; fIsArr / eIsArr say whether its `fields` / `entries` is an array
JsonObject(fIsArr, f, eIsArr, e) == Doc("obj", fIsArr, f, eIsArr, e, <<>>)

StoredFields1 == << Field("name", <<"N">>, "text"), Field("city", <<"C">>, "text") >>
StoredEntries1 == << [name |-> <<"A">>, city |-> <<"B">>] >>

FieldSlots ==
    { Absent, Stored(EmptyText), Stored(Malformed), Stored(JsonScalar),
      Stored(JSONstringify(<<>>)), Stored(JSONstringify(StoredFields1)) }
EntrySlots ==
    { Absent, Stored(Malformed), Stored(JsonNull),
      Stored(JSONstringify(<<>>)), Stored(JSONstringify(StoredEntries1)) }

ImportFields1 == << Field("name", <<"N">>, "text"), Field("zip", <<"Z">>, "number") >>
ImportEntries1 == << [name |-> <<"X">>, zip |-> <<"1">>] >>
ImportEntries2 == << [name |-> <<"Y">>], [email |-> <<"y", "@", "z">>] >>

FullImport1 == JsonObject(TRUE, ImportFields1, TRUE, ImportEntries1)
FullImport2 == JsonObject(TRUE, <<>>, TRUE, <<>>)
ArrayImport == JSONstringify(ImportEntries2)

\* the files the user uploads while editing
Uploads == {Malformed, FullImport1, ArrayImport}

ImportDocs ==
    { Malformed, EmptyText, JsonNull, JsonScalar,
      JsonObject(FALSE, <<>>, FALSE, <<>>),
      JsonObject(TRUE, ImportFields1, FALSE, <<>>),
      JsonObject(FALSE, <<>>, TRUE, ImportEntries1),
      FullImport1, FullImport2, ArrayImport }

----------------------------------------------------------------------------
(* Effects (lines 114-150).  An effect runs after the render that scheduled *)
(* it and sees that render's values: each queued effect carries them in val. *)

Fx(name, val) == [fx |-> name, val |-> val]

\* the entries effect with an empty dependency list: it runs on the first render only
EffectsForFieldsOnly(fChanged, eChanged, f, e) ==
    (IF fChanged THEN << Fx("persistFields", f) >> ELSE <<>>)
    \o (IF fChanged /\ eChanged THEN << Fx("persistEntries", e) >> ELSE <<>>)
    \o (IF fChanged THEN << Fx("reconcile", f) >> ELSE <<>>)

\* the effects a render schedules, in declaration order, given which of the
\* dependencies [fields] and [entries] changed identity
EffectsFor(fChanged, eChanged, f, e) ==
    (IF fChanged THEN << Fx("persistFields", f) >> ELSE <<>>)
    \o (IF eChanged THEN << Fx("persistEntries", e) >> ELSE <<>>)
    \o (IF fChanged THEN << Fx("reconcile", f) >> ELSE <<>>)

\* the first render: every effect runs, with the initial state
MountEffects == << Fx("load", <<>>) >> \o EffectsFor(TRUE, TRUE, DEFAULT_FIELDS, <<>>)

NoChange == [setF |-> FALSE, f |-> <<>>, setE |-> FALSE, e |-> <<>>]

\* lines 116-127: one try block around both slots
LoadResult(sf, se, disabled) ==
    IF disabled THEN NoChange                       \* getItem throws
    ELSE IF Truthy(sf) /\ ParseThrows(sf.doc) THEN NoChange  \* throws before e is parsed
    ELSE
        LET setF == Truthy(sf) /\ sf.doc.t = "arr" /\ Len(sf.doc.items) > 0
            partial == [setF |-> setF, f |-> (IF setF THEN sf.doc.items ELSE <<>>),
                        setE |-> FALSE, e |-> <<>>]
        IN  IF Truthy(se) /\ ParseThrows(se.doc) THEN partial
            ELSE IF Truthy(se) /\ se.doc.t = "arr"
                 THEN [partial EXCEPT !.setE = TRUE, !.e = se.doc.items]
                 ELSE partial

\* a reconciliation that adds the new keys and forgets to delete the stale ones
ReconcileKeepsStale(prev, fs) ==
    [k \in (DOMAIN prev) \cup Ids(fs) |-> IF k \in DOMAIN prev THEN prev[k] ELSE NoText]

\* lines 144-149
Reconcile(prev, fs) ==
    LET added == [k \in (DOMAIN prev) \cup Ids(fs) |->
                     IF k \in DOMAIN prev THEN prev[k] ELSE NoText]
        kept == {k \in DOMAIN added : \E i \in DOMAIN fs : fs[i].id = k}
    IN  [k \in kept |-> added[k]]

Settled == fxQueue = <<>>

LoadEffect ==
    /\ fxQueue # <<>> /\ Head(fxQueue).fx = "load"
    /\ LET r == LoadResult(slotFields, slotEntries, storageDisabled)
           f2 == IF r.setF THEN r.f ELSE fields
           e2 == IF r.setE THEN r.e ELSE entries
       IN  /\ fields' = f2
           /\ entries' = e2
           \* the state updates re-render after this commit's effects have run
           /\ fxQueue' = Tail(fxQueue) \o EffectsFor(r.setF, r.setE, f2, e2)
    /\ lastOp' = "load"
    /\ UNCHANGED <<entry, slotFields, slotEntries, storageDisabled, fieldsWriteOk,
                   entriesWriteOk, writeFailures, inflight, importLog, preImport, steps>>
    /\ UNCHANGED toolVars

\* setItem throws when storage is disabled, and may throw on a working storage
\* (quota exceeded)
WriteOutcome(ok) ==
    /\ storageDisabled => ~ok
    /\ (~ok /\ ~storageDisabled) => writeFailures < MaxWriteFailures
    /\ writeFailures' = IF ~ok /\ ~storageDisabled THEN writeFailures + 1 ELSE writeFailures

\* lines 131-135: setItem may throw (storage disabled, quota); the catch swallows it
PersistFieldsEffect ==
    /\ fxQueue # <<>> /\ Head(fxQueue).fx = "persistFields"
    /\ \E ok \in BOOLEAN :
          /\ WriteOutcome(ok)
          /\ slotFields' = IF ok THEN Stored(JSONstringify(Head(fxQueue).val)) ELSE slotFields
          /\ fieldsWriteOk' = ok
    /\ fxQueue' = Tail(fxQueue)
    /\ lastOp' = "persistFields"
    /\ UNCHANGED <<fields, entry, entries, slotEntries, storageDisabled, entriesWriteOk,
                   inflight, importLog, preImport, steps>>
    /\ UNCHANGED toolVars

\* lines 136-140
PersistEntriesEffect ==
    /\ fxQueue # <<>> /\ Head(fxQueue).fx = "persistEntries"
    /\ \E ok \in BOOLEAN :
          /\ WriteOutcome(ok)
          /\ slotEntries' = IF ok THEN Stored(JSONstringify(Head(fxQueue).val)) ELSE slotEntries
          /\ entriesWriteOk' = ok
    /\ fxQueue' = Tail(fxQueue)
    /\ lastOp' = "persistEntries"
    /\ UNCHANGED <<fields, entry, entries, slotFields, storageDisabled, fieldsWriteOk,
                   inflight, importLog, preImport, steps>>
    /\ UNCHANGED toolVars

\* lines 143-150
ReconcileEffect ==
    /\ fxQueue # <<>> /\ Head(fxQueue).fx = "reconcile"
    /\ entry' = Reconcile(entry, Head(fxQueue).val)
    /\ fxQueue' = Tail(fxQueue)
    /\ lastOp' = "reconcile"
    /\ UNCHANGED <<fields, entries, slotFields, slotEntries, storageDisabled, fieldsWriteOk,
                   entriesWriteOk, writeFailures, inflight, importLog, preImport, steps>>
    /\ UNCHANGED toolVars

----------------------------------------------------------------------------
(* Event handlers (lines 152-198 and the inline handlers of the JSX).  A     *)
(* handler runs on a committed render whose effects have been flushed, and   *)
(* the render it causes schedules the effects whose dependency changed.      *)

CanAct == Settled /\ steps < MaxSteps

storageVars == <<slotFields, slotEntries, storageDisabled, fieldsWriteOk, entriesWriteOk,
                 writeFailures>>
importVars == <<inflight, importLog, preImport>>

\* every handler that calls setFields with a new array
SetFields(fs, op) ==
    /\ fields' = fs
    /\ fxQueue' = EffectsFor(TRUE, FALSE, fs, entries)
    /\ steps' = steps + 1
    /\ lastOp' = op
    /\ UNCHANGED <<entry, entries, storageVars, importVars>>
    /\ UNCHANGED toolVars

\* line 153
UpdatedEntry(e, fieldId, value) ==
    [k \in (DOMAIN e) \cup {fieldId} |-> IF k = fieldId THEN value ELSE e[k]]

updateValue ==
    /\ CanAct
    /\ \E i \in DOMAIN fields, value \in Values :
          entry' = UpdatedEntry(entry, fields[i].id, value)
    /\ steps' = steps + 1
    /\ lastOp' = "updateValue"
    /\ UNCHANGED <<fields, entries, fxQueue, storageVars, importVars>>
    /\ UNCHANGED toolVars

\* lines 156-159
addField ==
    /\ CanAct /\ Len(fields) < MaxFields
    /\ \E id \in UidPool :
          SetFields(Append(fields, Field(id, NewFieldLabel, "text")), "addField")

\* lines 161-163
RemovedField(fs, id) == SelectSeq2(fs, {i \in DOMAIN fs : fs[i].id # id}, 1)

removeField ==
    /\ CanAct
    /\ \E i \in DOMAIN fields : SetFields(RemovedField(fields, fields[i].id), "removeField")

\* line 217
editLabel ==
    /\ CanAct
    /\ \E i \in DOMAIN fields, label \in EditLabels :
          SetFields([j \in DOMAIN fields |->
                        IF fields[j].id = fields[i].id
                        THEN [fields[j] EXCEPT !.label = label] ELSE fields[j]],
                    "editLabel")

\* line 224
editType ==
    /\ CanAct
    /\ \E i \in DOMAIN fields, type \in EditTypes :
          SetFields([j \in DOMAIN fields |->
                        IF fields[j].id = fields[i].id
                        THEN [fields[j] EXCEPT !.type = type] ELSE fields[j]],
                    "editType")

\* a save that appends instead of prepending
SavedListAppended(e, list) == list \o <<e>>

\* line 166
SavedList(e, list) == <<e>> \o list

\* lines 165-168
saveEntry ==
    /\ CanAct /\ Len(entries) < MaxSaved
    /\ entries' = SavedList(entry, entries)
    /\ entry' = EmptyEntry(fields)
    /\ fxQueue' = EffectsFor(FALSE, TRUE, fields, entries')
    /\ steps' = steps + 1
    /\ lastOp' = "saveEntry"
    /\ UNCHANGED <<fields, storageVars, importVars>>
    /\ UNCHANGED toolVars

\* line 268, the clear button
clearEntry ==
    /\ CanAct
    /\ entry' = EmptyEntry(fields)
    /\ steps' = steps + 1
    /\ lastOp' = "clearEntry"
    /\ UNCHANGED <<fields, entries, fxQueue, storageVars, importVars>>
    /\ UNCHANGED toolVars

\* line 342, the delete button of a saved row
deleteSavedEntry ==
    /\ CanAct
    /\ \E idx \in DOMAIN entries :
          entries' = SelectSeq2(entries, (DOMAIN entries) \ {idx}, 1)
    /\ fxQueue' = EffectsFor(FALSE, TRUE, fields, entries')
    /\ steps' = steps + 1
    /\ lastOp' = "deleteSavedEntry"
    /\ UNCHANGED <<fields, entry, storageVars, importVars>>
    /\ UNCHANGED toolVars

----------------------------------------------------------------------------
(* JSON import (lines 184-198) *)

\* an import that takes `entries` from an object whose `fields` is no array
ImportResultEntriesAlone(doc) ==
    IF doc.t = "obj" /\ doc.eIsArr
    THEN [setF |-> doc.fIsArr, f |-> doc.f, setE |-> TRUE, e |-> doc.e]
    ELSE IF doc.t = "arr" THEN [setF |-> FALSE, f |-> <<>>, setE |-> TRUE, e |-> doc.items]
    ELSE NoChange

\* an import that takes a bare array as a whole new store: entries, and no fields
ImportResultArrayResetsFields(doc) ==
    IF doc.t = "obj" /\ doc.fIsArr /\ doc.eIsArr
    THEN [setF |-> TRUE, f |-> doc.f, setE |-> TRUE, e |-> doc.e]
    ELSE IF doc.t = "arr" THEN [setF |-> TRUE, f |-> <<>>, setE |-> TRUE, e |-> doc.items]
    ELSE NoChange

\* lines 187-195: what the onload callback does with the text read
ImportResult(doc) ==
    LET text == IF doc.t = "empty" THEN JsonObject(FALSE, <<>>, FALSE, <<>>) ELSE doc
    IN  IF ParseThrows(text) THEN NoChange              \* JSON.parse throws
        ELSE IF text.t = "null" THEN NoChange           \* obj.fields throws a TypeError
        ELSE IF text.t = "obj" /\ text.fIsArr /\ text.eIsArr
             THEN [setF |-> TRUE, f |-> text.f, setE |-> TRUE, e |-> text.e]
        ELSE IF text.t = "arr"
             THEN [setF |-> FALSE, f |-> <<>>, setE |-> TRUE, e |-> text.items]
        ELSE NoChange

\* lines 185 and 197: a read is started; nothing guards against one in flight
importJSON ==
    /\ CanAct /\ Len(inflight) < MaxInFlight
    /\ \E doc \in Uploads : inflight' = Append(inflight, doc)
    /\ steps' = steps + 1
    /\ lastOp' = "importJSON"
    /\ UNCHANGED <<fields, entry, entries, fxQueue, storageVars, importLog, preImport>>
    /\ UNCHANGED toolVars

\* lines 186-196: reader.onload of one of the reads in flight
importOnload ==
    /\ Settled
    /\ \E i \in DOMAIN inflight :
          LET r == ImportResult(inflight[i])
              f2 == IF r.setF THEN r.f ELSE fields
              e2 == IF r.setE THEN r.e ELSE entries
          IN  /\ fields' = f2
              /\ entries' = e2
              /\ fxQueue' = EffectsFor(r.setF, r.setE, f2, e2)
              /\ importLog' = Append(importLog, inflight[i])
              /\ inflight' = SelectSeq2(inflight, (DOMAIN inflight) \ {i}, 1)
    /\ lastOp' = "importOnload"
    /\ UNCHANGED <<entry, storageVars, preImport, steps>>
    /\ UNCHANGED toolVars

----------------------------------------------------------------------------
(* Bookmarklet text (lines 58-68) *)

MaxTextLen == 5

\* \s of a JavaScript regular expression, and what trim() strips
IsSpace(c) == c \in {" ", "\t", "\r", "\n"}
Separators == {"=", ":"}

Min(S) == CHOOSE x \in S : \A y \in S : x <= y
Max(S) == CHOOSE x \in S : \A y \in S : x >= y

RECURSIVE SplitLines(_)
\* text.split(/\r?\n/)
SplitLines(t) ==
    LET breaks == {i \in DOMAIN t : t[i] = "\n"}
    IN  IF breaks = {} THEN <<t>>
        ELSE LET i == Min(breaks)
                 end == IF i > 1 /\ t[i - 1] = "\r" THEN i - 2 ELSE i - 1
             IN  <<SubSeq(t, 1, end)>> \o SplitLines(SubSeq(t, i + 1, Len(t)))

\* l.trim()
Trim(l) ==
    LET solid == {i \in DOMAIN l : ~IsSpace(l[i])}
    IN  IF solid = {} THEN <<>> ELSE SubSeq(l, Min(solid), Max(solid))

RECURSIVE SplitSep(_)
\* line.split(/\s*[=:]\s*/): every match of the expression is a cut, and what
\* lies between two cuts is a piece
SplitSep(line) ==
    LET \* the places where the expression matches: blanks, then a separator
        starts == {p \in DOMAIN line :
                     \E q \in p..Len(line) :
                        /\ line[q] \in Separators
                        /\ \A r \in p..(q - 1) : IsSpace(line[r])}
    IN  IF starts = {} THEN <<line>>
        ELSE LET p == Min(starts)
                 q == Min({x \in p..Len(line) : line[x] \in Separators})
                 \* the blanks after the separator belong to the match
                 stop == Min({x \in (q + 1)..(Len(line) + 1) :
                                x = Len(line) + 1 \/ ~IsSpace(line[x])})
             IN  <<SubSeq(line, 1, p - 1)>> \o SplitSep(SubSeq(line, stop, Len(line)))

RECURSIVE Join(_, _)
\* Array.prototype.join
Join(parts, sep) ==
    IF parts = <<>> THEN <<>>
    ELSE IF Len(parts) = 1 THEN parts[1]
    ELSE parts[1] \o sep \o Join(Tail(parts), sep)

Pair(selector, value) == [selector |-> selector, value |-> value]

\* lines 63-66
LinePair(line) ==
    LET pieces == SplitSep(line)
    IN  Pair(pieces[1], Join(Tail(pieces), <<":", " ">>))

RECURSIVE MapLines(_)
MapLines(lines) ==
    IF lines = <<>> THEN <<>>
    ELSE LET l == Trim(lines[1])
         IN  (IF l = <<>> THEN <<>>                      \* .filter(Boolean)
              ELSE LET p == LinePair(l)
                   IN  IF p.selector = <<>> THEN <<>>    \* .filter((p) => p.selector)
                       ELSE <<p>>)
             \o MapLines(Tail(lines))

\* lines 58-68
parseBookmarkletPairs(text) == MapLines(SplitLines(text))

\* the example of the help text under the textarea (line 360)
ExampleLine ==
    << "i", "n", "p", "u", "t", "[", "n", "a", "m", "e", "=", "e", "m", "a", "i", "l", "]",
       " ", "=", " ",
       "u", "s", "e", "r", "@", "e", "x", "a", "m", "p", "l", "e", ".", "c", "o", "m" >>

TextAlphabet == {"s", "=", ":", " ", "\n"}

\* what one change event of the textarea can make of the text: a character
\* typed at the end, or the example pasted into the empty textarea
Typed(text) ==
    {Append(text, c) : c \in IF Len(text) < MaxTextLen THEN TextAlphabet ELSE {}}
    \cup (IF text = <<>> THEN {ExampleLine} ELSE {})

\* lines 110-111 and 366: onChange sets the text, and the pairs are recomputed from it
setBmText ==
    /\ \E text \in Typed(bmText) :
          /\ bmText' = text
          /\ bmPairs' = parseBookmarkletPairs(text)
    /\ lastOp' = "setBmText"
    /\ UNCHANGED <<fields, entry, entries, storageVars, fxQueue, importVars, steps>>
    /\ UNCHANGED <<page, scriptRun, csvOut>>

----------------------------------------------------------------------------
(* The generated autofill script (lines 70-100) *)

MaxPairs == 2

\* The script is the text of a template literal: the compiler does not touch
\* it, and the browser parses it as JavaScript when the bookmark is clicked.
\* These are the constructs the text uses (lines 71-98); "as-assertion" is the
\* `(el as HTMLInputElement)` of line 84 and the `(el as HTMLElement)` of line 91.
ScriptConstructs ==
    { "arrow-function-call", "const", "let", "for-of-destructuring", "try-catch",
      "continue", "instanceof", "assignment", "new", "if-else", "call",
      "as-assertion" }

\* the constructs of JavaScript among them: a type assertion is TypeScript only
JavaScriptConstructs ==
    { "arrow-function-call", "const", "let", "for-of-destructuring", "try-catch",
      "continue", "instanceof", "assignment", "new", "if-else", "call" }

\* lines 70-100: the URI carries the script text with the pairs spliced in as
\* JSON (lines 72-74); encodeURIComponent and the browser's decoding undo each other
buildBookmarklet(pairs) ==
    [ scheme |-> "javascript:",
      pairs |-> [i \in DOMAIN pairs |-> [s |-> pairs[i].selector, v |-> pairs[i].value]],
      constructs |-> ScriptConstructs ]

\* the elements a selector can resolve to on the page
InputKinds == {"checkbox", "radio", "text", "file"}
ElementKinds == {"none", "invalid"} \cup InputKinds \cup {"textarea", "div"}

Element(kind, checked) == [kind |-> kind, checked |-> checked]

\* el instanceof HTMLInputElement || el instanceof HTMLTextAreaElement (line 81)
IsInputControl(el) == el.kind \in InputKinds \cup {"textarea"}

\* (el.getAttribute('type') || '').toLowerCase() (line 82)
TypeAttribute(el) == IF el.kind \in InputKinds THEN el.kind ELSE ""

LowerChar(c) ==
    CASE c = "T" -> "t" [] c = "R" -> "r" [] c = "U" -> "u" [] c = "E" -> "e"
      [] c = "Y" -> "y" [] c = "S" -> "s" [] c = "N" -> "n" [] c = "O" -> "o"
      [] OTHER -> c

\* String.prototype.toLowerCase
toLowerCase(v) == [i \in DOMAIN v |-> LowerChar(v[i])]

StrTrue == <<"t", "r", "u", "e">>
StrOne == <<"1">>
StrYes == <<"y", "e", "s">>

\* line 84
CheckedFor(v) == v = StrTrue \/ v = StrOne \/ toLowerCase(v) = StrYes

\* the document before the script runs
FreshDom(pg) ==
    [sel \in DOMAIN pg |->
        [checked |-> pg[sel].checked, value |-> NoText, text |-> NoText, events |-> <<>>]]

NotRun == [status |-> "idle", attempted |-> 0, filled |-> 0, logged |-> FALSE,
           alerted |-> FALSE, dom |-> <<>>]

\* lines 77-94: one turn of the loop; a throw leaves through the empty catch
ScriptStep(run, pair, pg) ==
    LET el == pg[pair.s]
        tried == [run EXCEPT !.attempted = @ + 1]
        done(dom) == [tried EXCEPT !.dom = dom, !.filled = @ + 1]
        events == <<"input", "change">>
    IN  IF el.kind = "invalid" THEN tried            \* querySelector throws
        ELSE IF el.kind = "none" THEN tried          \* continue
        ELSE IF IsInputControl(el)
        THEN IF TypeAttribute(el) \in {"checkbox", "radio"}
             THEN done([run.dom EXCEPT ![pair.s].checked = CheckedFor(pair.v),
                                       ![pair.s].events = @ \o events])
             ELSE IF el.kind = "file" /\ pair.v # NoText
             THEN tried                              \* the value setter throws
             ELSE done([run.dom EXCEPT ![pair.s].value = pair.v,
                                       ![pair.s].events = @ \o events])
        ELSE done([run.dom EXCEPT ![pair.s].text = pair.v])

RECURSIVE ScriptLoop(_, _, _)
\* lines 76-95
ScriptLoop(run, pairs, pg) ==
    IF pairs = <<>> THEN run
    ELSE ScriptLoop(ScriptStep(run, Head(pairs), pg), Tail(pairs), pg)

\* what clicking the bookmark does to the page
RunScript(uri, pg) ==
    LET start == [NotRun EXCEPT !.dom = FreshDom(pg)]
    IN  IF ~(uri.constructs \subseteq JavaScriptConstructs)
        THEN [start EXCEPT !.status = "SyntaxError"]   \* nothing of the script runs
        ELSE LET end == ScriptLoop(start, uri.pairs, pg)
             IN  [end EXCEPT !.status = "completed",
                             !.logged = end.filled > 0,   \* line 96
                             !.alerted = end.filled = 0]  \* line 97

\* the user clicks the bookmark made from the current text (lines 111, 370-373)
runBookmarklet ==
    /\ scriptRun.status = "idle"
    /\ scriptRun' = RunScript(buildBookmarklet(bmPairs), page)
    /\ lastOp' = "runBookmarklet"
    /\ UNCHANGED <<fields, entry, entries, storageVars, fxQueue, importVars, steps>>
    /\ UNCHANGED <<bmText, bmPairs, page, csvOut>>

----------------------------------------------------------------------------
(* CSV export (lines 44-56, 170-178).  A JavaScript object is the list of    *)
(* its properties in creation order.                                         *)

MaxCsvFields == 2
MaxCsvEntries == 2

Prop(k, v) == [k |-> k, v |-> v]

Digits == {"0", "1", "2", "3", "4", "5", "6", "7", "8", "9"}
DigitValue(c) ==
    CASE c = "0" -> 0 [] c = "1" -> 1 [] c = "2" -> 2 [] c = "3" -> 3 [] c = "4" -> 4
      [] c = "5" -> 5 [] c = "6" -> 6 [] c = "7" -> 7 [] c = "8" -> 8 [] OTHER -> 9

\* a property name that is a canonical array index: "0", "7", "12", not "07"
IsArrayIndex(k) ==
    /\ k # <<>>
    /\ \A i \in DOMAIN k : k[i] \in Digits
    /\ Len(k) > 1 => k[1] # "0"

RECURSIVE IndexValue(_)
IndexValue(k) ==
    IF k = <<>> THEN 0 ELSE 10 * IndexValue(SubSeq(k, 1, Len(k) - 1)) + DigitValue(k[Len(k)])

\* obj[k] = v: an existing property keeps its place
Put(obj, k, v) ==
    IF \E i \in DOMAIN obj : obj[i].k = k
    THEN [i \in DOMAIN obj |-> IF obj[i].k = k THEN Prop(k, v) ELSE obj[i]]
    ELSE Append(obj, Prop(k, v))

RECURSIVE FromEntriesInto(_, _)
FromEntriesInto(obj, props) ==
    IF props = <<>> THEN obj
    ELSE FromEntriesInto(Put(obj, props[1].k, props[1].v), Tail(props))

\* Object.fromEntries
FromEntries(props) == FromEntriesInto(<<>>, props)

RECURSIVE Ascending(_)
\* the index names of a set, by their number
Ascending(ks) ==
    IF ks = {} THEN <<>>
    ELSE LET least == CHOOSE k \in ks : \A o \in ks : IndexValue(k) <= IndexValue(o)
         IN  <<least>> \o Ascending(ks \ {least})

\* Object.keys: the array-index names by their number, then the other names in
\* creation order
ObjectKeys(obj) ==
    LET others == SelectSeq2(obj, {i \in DOMAIN obj : ~IsArrayIndex(obj[i].k)}, 1)
    IN  Ascending({obj[i].k : i \in {j \in DOMAIN obj : IsArrayIndex(obj[j].k)}})
        \o [i \in DOMAIN others |-> others[i].k]

\* row[h] ?? ""
GetOrEmpty(obj, k) ==
    IF \E i \in DOMAIN obj : obj[i].k = k
    THEN obj[CHOOSE i \in DOMAIN obj : obj[i].k = k].v
    ELSE NoText

RECURSIVE DoubleQuotes(_)
\* v.replaceAll('"', '""')
DoubleQuotes(v) ==
    IF v = <<>> THEN <<>>
    ELSE (IF v[1] = "\"" THEN <<"\"", "\"">> ELSE <<v[1]>>) \o DoubleQuotes(Tail(v))

\* lines 47-50
escape(v) ==
    LET str == DoubleQuotes(v)
    IN  IF \E i \in DOMAIN str : str[i] \in {"\"", ",", "\n"}
        THEN <<"\"">> \o str \o <<"\"">>
        ELSE str

\* lines 44-56
toCSV(rows) ==
    IF rows = <<>> THEN <<>>
    ELSE LET headers == ObjectKeys(rows[1])
             line(row) == Join([h \in DOMAIN headers |-> escape(GetOrEmpty(row, headers[h]))],
                               <<",">>)
         IN  Join(<<Join(headers, <<",">>)>> \o [r \in DOMAIN rows |-> line(rows[r])],
                  <<"\n">>)

\* en[f.id] ?? ""
ValueOf(en, id) == IF id \in DOMAIN en THEN en[id] ELSE NoText

\* lines 173-175
mapRows(fs, es) ==
    [e \in DOMAIN es |->
        FromEntries([f \in DOMAIN fs |-> Prop(fs[f].label, ValueOf(es[e], fs[f].id))])]

\* lines 170-178
exportEntriesCSV ==
    /\ Settled
    /\ csvOut' = IF entries = <<>> THEN csvOut     \* line 171: return
                 ELSE [downloaded |-> TRUE, content |-> toCSV(mapRows(fields, entries))]
    /\ lastOp' = "exportEntriesCSV"
    /\ UNCHANGED <<fields, entry, entries, storageVars, fxQueue, importVars, steps>>
    /\ UNCHANGED bmVars

----------------------------------------------------------------------------
(* The store: the page from its first render on *)

BmIdle ==
    /\ bmText = <<>>
    /\ bmPairs = <<>>
    /\ page = <<>>
    /\ scriptRun = NotRun

CsvIdle == csvOut = [downloaded |-> FALSE, content |-> <<>>]

\* the first render (lines 103-109), before its effects have run
FirstRender ==
    /\ fields = DEFAULT_FIELDS
    /\ entry = EmptyEntry(DEFAULT_FIELDS)
    /\ entries = <<>>
    /\ fieldsWriteOk = FALSE
    /\ entriesWriteOk = FALSE
    /\ writeFailures = 0
    /\ fxQueue = MountEffects
    /\ inflight = <<>>
    /\ importLog = <<>>
    /\ preImport = <<>>
    /\ steps = 0
    /\ lastOp = "init"
    /\ BmIdle
    /\ CsvIdle

\* a first visit, or a return to what an earlier session stored
Init ==
    /\ slotFields \in {Absent, Stored(JSONstringify(StoredFields1))}
    /\ slotEntries \in {Absent, Stored(JSONstringify(StoredEntries1))}
    /\ storageDisabled = FALSE
    /\ FirstRender

Next ==
    \/ LoadEffect
    \/ PersistFieldsEffect
    \/ PersistEntriesEffect
    \/ ReconcileEffect
    \/ updateValue
    \/ addField
    \/ removeField
    \/ editLabel
    \/ editType
    \/ saveEntry
    \/ clearEntry
    \/ deleteSavedEntry
    \/ importJSON
    \/ importOnload

Spec == Init /\ [][Next]_vars

----------------------------------------------------------------------------
(* The initial load: the first render's effects, for every content of the   *)
(* two slots                                                                 *)

InitLoad ==
    /\ slotFields \in FieldSlots
    /\ slotEntries \in EntrySlots
    /\ storageDisabled \in BOOLEAN
    /\ FirstRender

NextLoad ==
    \/ LoadEffect
    \/ PersistFieldsEffect
    \/ PersistEntriesEffect
    \/ ReconcileEffect

SpecLoad == InitLoad /\ [][NextLoad]_vars

----------------------------------------------------------------------------
(* Two uploads being read at once, on a settled page *)

InitImport ==
    /\ fields \in {DEFAULT_FIELDS, StoredFields1}
    /\ entries \in {<<>>, StoredEntries1}
    /\ \E i \in DOMAIN fields, value \in Values :
          entry = UpdatedEntry(EmptyEntry(fields), fields[i].id, value)
    /\ slotFields = Stored(JSONstringify(fields))
    /\ slotEntries = Stored(JSONstringify(entries))
    /\ storageDisabled = FALSE
    /\ fieldsWriteOk = TRUE
    /\ entriesWriteOk = TRUE
    /\ writeFailures = 0
    /\ fxQueue = <<>>
    /\ inflight \in {<<d1, d2>> : d1 \in ImportDocs, d2 \in ImportDocs}
    /\ importLog = <<>>
    /\ preImport = <<fields, entries>>
    /\ steps = 0
    /\ lastOp = "importJSON"
    /\ BmIdle
    /\ CsvIdle

NextImport ==
    \/ importOnload
    \/ PersistFieldsEffect
    \/ PersistEntriesEffect
    \/ ReconcileEffect

SpecImport == InitImport /\ [][NextImport]_vars

----------------------------------------------------------------------------
(* Claims about the store *)

\* what the claim expects of a slot: its array when it can be read, is present
\* and holds an array
ClaimLoaded(slot, default) ==
    IF ~storageDisabled /\ slot.present /\ slot.doc.t = "arr" THEN slot.doc.items ELSE default

\* C5: the load effect leaves fields equal to the fields slot's array when the
\* slot holds one, else the default; and the saved entries equal to the entries
\* slot's array when the slot holds one, else empty; each slot on its own.
C5_InitialLoad ==
    [][lastOp' = "load" =>
          /\ fields' = ClaimLoaded(slotFields, DEFAULT_FIELDS)
          /\ entries' = ClaimLoaded(slotEntries, <<>>)]_vars

\* C5, the entries slot alone: a well-formed entries array is loaded whatever
\* the fields slot holds.
C5_EntriesLoadedIndependently ==
    [][lastOp' = "load" => entries' = ClaimLoaded(slotEntries, <<>>)]_vars

DraftEdits == {"updateValue", "saveEntry", "clearEntry"}

\* C1: once the reconciliation effect has run, the draft's key set is exactly
\* the set of ids of the field list, whatever field-list transitions, draft
\* updates and saves came before; and no step other than a draft edit changes
\* the value of a key the draft keeps.
C1_FieldReconciliation ==
    /\ [](Settled => DOMAIN entry = Ids(fields))
    /\ [][lastOp' \notin DraftEdits =>
            \A k \in (DOMAIN entry) \cap (DOMAIN entry') : entry'[k] = entry[k]]_vars

\* a field was removed after a value was typed into another, which is kept
C1_Witness ==
    /\ Settled /\ lastOp = "reconcile"
    /\ "name" \notin DOMAIN entry
    /\ "email" \in DOMAIN entry /\ entry["email"] = <<"A">>

\* C2: saveEntry puts the draft it found in front of the saved entries it
\* found, in their order, and leaves a draft with one key per current field id,
\* each the empty string; the steps that edit the draft afterwards leave the
\* saved entries as they are.
C2_SaveEntry ==
    /\ [][lastOp' = "saveEntry" =>
            /\ entries' = <<entry>> \o entries
            /\ DOMAIN entry' = Ids(fields')
            /\ \A k \in DOMAIN entry' : entry'[k] = NoText]_vars
    /\ [][lastOp' \in {"updateValue", "clearEntry", "reconcile"} => entries' = entries]_vars

\* a typed draft was saved in front of an entry saved before
C2_Witness ==
    /\ lastOp = "saveEntry"
    /\ Len(entries) = 2
    /\ \E k \in DOMAIN entries[1] : entries[1][k] = <<"A">>
    /\ \A k \in DOMAIN entry : entry[k] = NoText

\* the uploads the import is to ignore: text that is no JSON, and values that
\* are neither an object with array `fields` and `entries` nor an array
Ignored(doc) ==
    \/ doc.t = "malformed"
    \/ /\ ~(doc.t = "obj" /\ doc.fIsArr /\ doc.eIsArr)
       /\ doc.t # "arr"

LastImport == importLog[Len(importLog)]

\* C3: the onload of an upload that is to be ignored leaves fields, the saved
\* entries and the draft as they were and schedules nothing.
C3_ImportFailureNoChange ==
    [][(lastOp' = "importOnload" /\ Ignored(importLog'[Len(importLog')])) =>
          /\ UNCHANGED <<fields, entries, entry>>
          /\ fxQueue' = <<>>]_vars

\* `null` was uploaded to a page with a typed draft and saved entries
C3_Witness ==
    /\ lastOp = "importOnload"
    /\ importLog # <<>> /\ LastImport = JsonNull
    /\ entries = StoredEntries1
    /\ \E k \in DOMAIN entry : entry[k] = <<"A">>

\* C9: once the effects have settled, a slot whose latest write succeeded
\* holds the serialization of the current value; and a persist effect, failing
\* or not, leaves fields, saved entries and draft alone.
C9_PersistenceMirror ==
    /\ []((Settled /\ fieldsWriteOk) => slotFields = Stored(JSONstringify(fields)))
    /\ []((Settled /\ entriesWriteOk) => slotEntries = Stored(JSONstringify(entries)))
    /\ [][lastOp' \in {"persistFields", "persistEntries"} =>
            UNCHANGED <<fields, entries, entry>>]_vars

\* a write failed, later writes of changed fields and entries succeeded
C9_Witness ==
    /\ Settled /\ writeFailures = 1
    /\ fieldsWriteOk /\ entriesWriteOk
    /\ fields # DEFAULT_FIELDS /\ fields # StoredFields1
    /\ Len(entries) = 2

IsFull(doc) == doc.t = "obj" /\ doc.fIsArr /\ doc.eIsArr
IsBareArray(doc) == doc.t = "arr"

\* C10 as stated: after both completions the store is that of the import
\* completed last, as if the earlier completion had not happened.
C10_LastCompletionWins ==
    Len(importLog) = 2 =>
        LET d == importLog[2] IN
        /\ IsFull(d) => (fields = d.f /\ entries = d.e)
        /\ IsBareArray(d) => (fields = preImport[1] /\ entries = d.items)
        /\ Ignored(d) => (fields = preImport[1] /\ entries = preImport[2])

\* what one completion leaves of a store <<f, e>>
After(doc, st) ==
    IF IsFull(doc) THEN <<doc.f, doc.e>>
    ELSE IF IsBareArray(doc) THEN <<st[1], doc.items>>
    ELSE st

\* C10, amended: neither read is cancelled and each completes once; the import
\* completed last is applied to what the earlier completion left: a full one
\* gives fields and saved entries, a bare array gives the saved entries and
\* leaves the fields of the earlier completion, an ignored one changes nothing.
C10_LastCompletionApplies ==
    /\ Len(importLog) + Len(inflight) = 2
    /\ Len(importLog) = 2 =>
          <<fields, entries>> = After(importLog[2], After(importLog[1], preImport))

\* a full import completed first and a bare array last
C10_Witness ==
    /\ Len(importLog) = 2 /\ inflight = <<>>
    /\ importLog[1] = FullImport1 /\ importLog[2] = ArrayImport
    /\ fields = ImportFields1 /\ entries = ImportEntries2

----------------------------------------------------------------------------
(* The bookmarklet textarea, on a page at rest *)

StoreAtRest ==
    /\ fields = DEFAULT_FIELDS
    /\ entry = EmptyEntry(DEFAULT_FIELDS)
    /\ entries = <<>>
    /\ slotFields = Stored(JSONstringify(DEFAULT_FIELDS))
    /\ slotEntries = Stored(JSONstringify(<<>>))
    /\ storageDisabled = FALSE
    /\ fieldsWriteOk = TRUE
    /\ entriesWriteOk = TRUE
    /\ writeFailures = 0
    /\ fxQueue = <<>>
    /\ inflight = <<>>
    /\ importLog = <<>>
    /\ preImport = <<>>
    /\ steps = 0
    /\ lastOp = "init"

InitParse ==
    /\ StoreAtRest
    /\ BmIdle
    /\ CsvIdle

NextParse == setBmText

SpecParse == InitParse /\ [][NextParse]_vars

\* the split the claim describes: a line is cut once, at its first `=` or `:`
ClaimLinePair(line) ==
    LET seps == {i \in DOMAIN line : line[i] \in Separators}
    IN  IF seps = {} THEN Pair(line, <<>>)
        ELSE Pair(Trim(SubSeq(line, 1, Min(seps) - 1)),
                  Trim(SubSeq(line, Min(seps) + 1, Len(line))))

RECURSIVE ClaimPairs(_)
ClaimPairs(lines) ==
    IF lines = <<>> THEN <<>>
    ELSE LET l == Trim(lines[1])
             p == ClaimLinePair(l)
         IN  (IF l = <<>> \/ p.selector = <<>> THEN <<>> ELSE <<p>>)
             \o ClaimPairs(Tail(lines))

\* C4: every non-blank line is cut at its first `=` or `:` into the selector
\* before it and the value, all the text after it; blank lines and lines with
\* an empty selector give no pair; the pairs follow the lines.
C4_SplitAtFirstSeparator ==
    lastOp = "setBmText" => bmPairs = ClaimPairs(SplitLines(bmText))

\* C4, its example: the line of the help text gives the one pair the claim names
C4_ExampleLine ==
    bmText = ExampleLine =>
        bmPairs = << Pair(SubSeq(ExampleLine, 1, 17), SubSeq(ExampleLine, 21, 36)) >>

----------------------------------------------------------------------------
(* The bookmark clicked on a third-party page *)

SelA == <<"#", "a">>
SelB == <<"#", "b">>
Selectors == {SelA, SelB}

ScriptValues ==
    { StrTrue, <<"T", "R", "U", "E">>, <<"T", "r", "u", "e">>, StrOne, StrYes,
      <<"Y", "E", "S">>, <<"n", "o">>, NoText }

Elements ==
    {Element(k, FALSE) : k \in ElementKinds}
    \cup {Element(k, TRUE) : k \in {"checkbox", "radio"}}

\* the text of one line, as the help text writes it
LineText(sel, v) == sel \o <<" ", "=", " ">> \o v

RECURSIVE LinesUpTo(_)
LinesUpTo(n) ==
    IF n = 0 THEN {<<>>}
    ELSE LinesUpTo(n - 1)
         \cup {Append(ls, LineText(sel, v)) :
                 ls \in LinesUpTo(n - 1), sel \in Selectors, v \in ScriptValues}

InitScript ==
    /\ StoreAtRest
    /\ CsvIdle
    /\ \E ls \in LinesUpTo(MaxPairs) : bmText = Join(ls, <<"\n">>)
    /\ bmPairs = parseBookmarkletPairs(bmText)
    /\ page \in [Selectors -> Elements]
    /\ scriptRun = NotRun

NextScript == runBookmarklet

SpecScript == InitScript /\ [][NextScript]_vars

\* the value of the last pair that names the selector
LastPairFor(sel) ==
    bmPairs[Max({i \in DOMAIN bmPairs : bmPairs[i].selector = sel})]

Named(sel) == \E i \in DOMAIN bmPairs : bmPairs[i].selector = sel

\* the values the claim takes for "checked", in any letter case
ClaimChecked(v) == toLowerCase(v) \in {StrTrue, StrOne, StrYes}

\* C7: once the script has been run, a checkbox or radio named by a pair is
\* checked iff the pair's value is "true", "1" or "yes" in any letter case, and
\* a text input or textarea named by a pair holds the pair's value.
C7_CheckboxRule ==
    scriptRun.status # "idle" =>
        \A sel \in Selectors :
            Named(sel) =>
                /\ page[sel].kind \in {"checkbox", "radio"} =>
                      scriptRun.dom[sel].checked = ClaimChecked(LastPairFor(sel).value)
                /\ page[sel].kind \in {"text", "textarea"} =>
                      scriptRun.dom[sel].value = LastPairFor(sel).value

\* a pair fills its element: the selector resolves and the assignment does not throw
Fills(pair) ==
    /\ page[pair.selector].kind \notin {"none", "invalid"}
    /\ ~(page[pair.selector].kind = "file" /\ pair.value # NoText)

\* C8: once the script has been run, every pair has been attempted, the count
\* is the number of pairs that resolved and were assigned without a throw, the
\* console message is given iff the count is positive and the alert otherwise.
C8_PerPairIsolation ==
    scriptRun.status # "idle" =>
        LET count == Cardinality({i \in DOMAIN bmPairs : Fills(bmPairs[i])})
        IN  /\ scriptRun.attempted = Len(bmPairs)
            /\ scriptRun.filled = count
            /\ scriptRun.logged = (count > 0)
            /\ scriptRun.alerted = (count = 0)

----------------------------------------------------------------------------
(* The CSV button, on a settled page *)

CsvLabels == {<<"N">>, <<"E">>, <<"7">>}
CsvIds == {"name", "email"}
CsvValues == {NoText, <<"A">>, <<",">>, <<"\"">>}

RECURSIVE ListsUpTo(_, _)
ListsUpTo(S, n) ==
    IF n = 0 THEN {<<>>}
    ELSE ListsUpTo(S, n - 1) \cup {Append(l, x) : l \in ListsUpTo(S, n - 1), x \in S}

\* field lists the editing operations lead to: edited labels, the default
\* list, and the default list after two clicks on "add field"
CsvFieldLists ==
    {fs \in ListsUpTo({Field(id, l, "text") : id \in CsvIds, l \in CsvLabels}, MaxCsvFields) :
        \A i, j \in DOMAIN fs : i # j => fs[i].id # fs[j].id}
    \cup { DEFAULT_FIELDS,
           DEFAULT_FIELDS \o << Field("field_u1", NewFieldLabel, "text"),
                                Field("field_u2", NewFieldLabel, "text") >> }

\* saved entries: some with every key, some from before a field was added
CsvEntries ==
    UNION {[ids -> CsvValues] : ids \in SUBSET CsvIds}
    \cup { [k \in {"name", "field_u1", "field_u2"} |->
              IF k = "name" THEN <<"A">> ELSE IF k = "field_u1" THEN <<"x">> ELSE <<"y">>] }

InitCsv ==
    /\ fields \in CsvFieldLists
    /\ entries \in ListsUpTo(CsvEntries, MaxCsvEntries)
    /\ entry = EmptyEntry(fields)
    /\ slotFields = Stored(JSONstringify(fields))
    /\ slotEntries = Stored(JSONstringify(entries))
    /\ storageDisabled = FALSE
    /\ fieldsWriteOk = TRUE
    /\ entriesWriteOk = TRUE
    /\ writeFailures = 0
    /\ fxQueue = <<>>
    /\ inflight = <<>>
    /\ importLog = <<>>
    /\ preImport = <<>>
    /\ steps = 0
    /\ lastOp = "init"
    /\ BmIdle
    /\ CsvIdle

NextCsv == exportEntriesCSV

SpecCsv == InitCsv /\ [][NextCsv]_vars

\* the file the claim describes: the labels in field order, then one row per
\* saved entry with the entry's value for each field
ClaimCsv(fs, es) ==
    LET header == Join([f \in DOMAIN fs |-> fs[f].label], <<",">>)
        row(en) == Join([f \in DOMAIN fs |-> escape(ValueOf(en, fs[f].id))], <<",">>)
    IN  Join(<<header>> \o [e \in DOMAIN es |-> row(es[e])], <<"\n">>)

\* C6: the CSV button produces nothing when there is no saved entry, and
\* otherwise a header with one column per field, the labels in field order,
\* and one row per saved entry, its i-th column the entry's value for the i-th
\* field's id, empty when the entry has none.
C6_ExportCSV ==
    lastOp = "exportEntriesCSV" =>
        IF entries = <<>> THEN ~csvOut.downloaded
        ELSE csvOut.downloaded /\ csvOut.content = ClaimCsv(fields, entries)

====
